---------------------------- MODULE Spec2Model ----------------------------
(***************************************************************************)
(* Focus stacking tool: FocusStacker (src/src/focus_stacker.py) and the    *)
(* MainWindow / FocusStackingThread orchestration (src/src/main.py).       *)
(*                                                                         *)
(* The specifications that share the module:                               *)
(*   Spec      FocusStacker.process_stack with _align_images step by step  *)
(*   SpecAlign _align_images on one pair, every scale pass recorded        *)
(*   SpecCtor  FocusStacker.__init__                                       *)
(*   SpecUI    MainWindow handlers and FocusStackingThread workers         *)
(*   SpecBlend FocusStacker._blend_images as a function of its inputs      *)
(*   SpecBlendUniform  _blend_images on one image and a flat focus map     *)
(*   SpecFocus _focus_measure, SpecSave save_image,                        *)
(*   SpecSplit split_into_stacks, each as a function of its inputs         *)
(*                                                                         *)
(* Fixed point: scores are hundredths (0.1 is 10), pixel values are        *)
(* thousandths (1.0 is 1000), scale steps are tenths (0.8 is 8), shifts    *)
(* at full resolution are in units of 1/24 of the estimator's unit, so     *)
(* that dividing by every scale step is exact.                             *)
(***************************************************************************)
EXTENDS Integers, Sequences, FiniteSets, TLC

(* ------------------------------ bounds -------------------------------- *)
\* longest stack handed to process_stack
MaxImages == 3
\* smallest image side, in pixels; sides are MinDim or MinDim + 1
MinDim == 5
\* how far outside the documented ranges constructor arguments are drawn
ArgSlack == 1
\* most stacks a Load Images selection is split into
MaxStacks == 2
\* most worker threads started in one run of the application
MaxWorkers == 2
\* width in pixels of the grey image handed to _focus_measure on its own
FocusWidth == 3
\* how far outside [0, 1] the values handed to save_image go, in thousandths
PixelSlack == 50
\* most paths handed to split_into_stacks on its own
MaxPaths == 3

(* ------------------------- program constants -------------------------- *)
MinRadius == 1
MaxRadius == 20
MinSmoothing == 1
MaxSmoothing == 10
MinScaleFactor == 1
MaxScaleFactor == 4
\* error > 0.1 starts the ECC refinement
EccThreshold == 10
\* MainWindow's defaults for its FocusStacker
DefaultRadius == 2
DefaultSmoothing == 1
DefaultScale == 2
\* a process_stack call needs at least 2 paths
MinStack == 2
\* pil_img.save(..., quality=95, ...)
JpegQuality == 95
\* scales = [1.0, 0.8, 0.6, 0.4, 0.2], in tenths
Scales == <<10, 8, 6, 4, 2>>
\* the unit of a full-resolution shift: shift / scale = shift * ShiftUnit * 10 / tenths
ShiftUnit == 24

VARIABLES
    \* ---- FocusStacker.__init__
    ctor_args,      \* the arguments of the latest constructor call
    stacker,        \* the instance the latest constructor call left, or NoInstance
    ctor_exc,       \* what the latest constructor call raised
    \* ---- FocusStacker.process_stack
    image_paths,    \* the files of the stack, in order
    color_space,    \* the color_space argument
    pc,             \* the position of process_stack
    images,         \* images loaded so far
    aligned,        \* _align_images' list `aligned`
    loc,            \* _align_images' locals for the image in hand
    focus_maps,     \* focus maps computed so far
    result,         \* the composite
    exc,            \* what process_stack raised
    ran,            \* the stages process_stack has entered
    fallbacks,      \* the images whose alignment ended in the except branch
    obs,            \* what the passes and the ECC step of a watched call observed
    \* ---- _blend_images called on its own
    blend_in,       \* the arguments of the call
    blend_out,      \* the buffer it returned
    \* ---- a method of FocusStacker called on its own
    call_in,        \* the method and its arguments
    call_out,       \* what it returned or raised
    \* ---- MainWindow and its worker threads
    stacks,         \* len(self.stacks), or NoStacks before the first load
    current_stack,  \* self.current_stack
    results,        \* self.results
    thread,         \* self.thread: a worker id, or 0 before the first start
    workers,        \* every FocusStackingThread created so far
    queue,          \* signals queued for the UI thread
    mainpc,         \* the UI thread: "idle", or "wait" inside thread.wait()
    hist            \* what happened in the batch in progress

ctorVars == <<ctor_args, stacker, ctor_exc>>
stackVars ==
    <<image_paths, color_space, pc, images, aligned, loc, focus_maps, result, exc, ran,
      fallbacks, obs>>
blendVars == <<blend_in, blend_out>>
callVars == <<call_in, call_out>>
uiVars == <<stacks, current_stack, results, thread, workers, queue, mainpc, hist>>
vars == <<ctorVars, stackVars, blendVars, callVars, uiVars>>

Max(a, b) == IF a >= b THEN a ELSE b
Min(a, b) == IF a <= b THEN a ELSE b

(* ====================== FocusStacker.__init__ ========================= *)
NoInstance ==
    [exists |-> FALSE, radius |-> 0, smoothing |-> 0, scale_factor |-> 0,
     window_size |-> 0, color_profiles |-> {}]

\* _init_color_profiles: the only profile created is sRGB
InitColorProfiles == {"sRGB"}

\* __init__ with one bound off by one (radius 20 refused)
FocusStackerInitStrictRadius(radius, smoothing, scale_factor) ==
    IF ~(MinRadius <= radius /\ radius < MaxRadius)
       \/ ~(MinSmoothing <= smoothing /\ smoothing <= MaxSmoothing)
       \/ ~(MinScaleFactor <= scale_factor /\ scale_factor <= MaxScaleFactor)
    THEN [exc |-> "ValueError", obj |-> NoInstance]
    ELSE [exc |-> "none",
          obj |-> [exists |-> TRUE, radius |-> radius, smoothing |-> smoothing,
                   scale_factor |-> scale_factor, window_size |-> 2 * radius + 1,
                   color_profiles |-> InitColorProfiles]]

\* __init__: the three range checks come before every assignment
FocusStackerInit(radius, smoothing, scale_factor) ==
    IF ~(MinRadius <= radius /\ radius <= MaxRadius)
    THEN [exc |-> "ValueError", obj |-> NoInstance]
    ELSE IF ~(MinSmoothing <= smoothing /\ smoothing <= MaxSmoothing)
    THEN [exc |-> "ValueError", obj |-> NoInstance]
    ELSE IF ~(MinScaleFactor <= scale_factor /\ scale_factor <= MaxScaleFactor)
    THEN [exc |-> "ValueError", obj |-> NoInstance]
    ELSE [exc |-> "none",
          obj |-> [exists |-> TRUE, radius |-> radius, smoothing |-> smoothing,
                   scale_factor |-> scale_factor, window_size |-> 2 * radius + 1,
                   color_profiles |-> InitColorProfiles]]

\* the stacker MainWindow.__init__ builds
DefaultStacker == FocusStackerInit(DefaultRadius, DefaultSmoothing, DefaultScale).obj

CtorArgs ==
    [radius : (MinRadius - ArgSlack)..(MaxRadius + ArgSlack),
     smoothing : (MinSmoothing - ArgSlack)..(MaxSmoothing + ArgSlack),
     scale_factor : (MinScaleFactor - ArgSlack)..(MaxScaleFactor + ArgSlack)]

NoArgs == [radius |-> 0, smoothing |-> 0, scale_factor |-> 0]
DefaultArgs ==
    [radius |-> DefaultRadius, smoothing |-> DefaultSmoothing, scale_factor |-> DefaultScale]

\* a call FocusStacker(radius, smoothing, scale_factor)
Construct(a) ==
    /\ ctor_exc = "unset"
    /\ ctor_args' = a
    /\ stacker' = FocusStackerInit(a.radius, a.smoothing, a.scale_factor).obj
    /\ ctor_exc' = FocusStackerInit(a.radius, a.smoothing, a.scale_factor).exc
    /\ UNCHANGED <<stackVars, blendVars, callVars, uiVars>>

(* ==================== FocusStacker.process_stack ====================== *)
Dims == MinDim..(MinDim + 1)
\* a file: what cv2.imread makes of it
Files == [h : Dims, w : Dims, ok : BOOLEAN]
ColorSpaces == {"sRGB", "AdobeRGB"}

NoShift == [some |-> FALSE, dy |-> 0, dx |-> 0]
Shift(dy, dx) == [some |-> TRUE, dy |-> dy, dx |-> dx]
\* what phase_cross_correlation may estimate, in its own unit
Estimates == {<<0, 0>>, <<1, -2>>}

Inf == [k |-> "inf", v |-> 0]
NaN == [k |-> "nan", v |-> 0]
Num(x) == [k |-> "num", v |-> x]
\* what -matchTemplate(...)[0][0] may be, in hundredths
Scores == {Num(-90), Num(0), Num(EccThreshold), Num(EccThreshold + 1), NaN}

\* a <= b in place of a < b
LessOrEqual(a, b) ==
    IF a.k = "nan" \/ b.k = "nan" THEN FALSE
    ELSE IF a.k = "inf" THEN b.k = "inf"
    ELSE IF b.k = "inf" THEN TRUE
    ELSE a.v <= b.v

\* Python's a < b on floats: false as soon as one side is NaN
Less(a, b) ==
    IF a.k = "nan" \/ b.k = "nan" THEN FALSE
    ELSE IF a.k = "inf" THEN FALSE
    ELSE IF b.k = "inf" THEN TRUE
    ELSE a.v < b.v

\* _load_image: a float RGB buffer of the file's size
LoadImage(j, f) == [src |-> j, h |-> f.h, w |-> f.w, warp |-> NoShift, ecc |-> FALSE]

NoLoc == [i |-> 0, s |-> 0, best_error |-> Inf, best_shift |-> NoShift,
          aligned_img |-> <<>>]

\* nothing observed: `on` says whether the call is watched; log holds one entry
\* per finished scale pass (scale, score, estimated shift); ecc is what the ECC
\* step did
NoObs == [on |-> FALSE, log |-> <<>>, ecc |-> "none"]

(* ------------------------- _blend_images ------------------------------ *)
\* np.clip(x, lo, hi) on one value
Clip(x, lo, hi) == Max(lo, Min(x, hi))

\* what the sharpened buffer may hold before the last clip, in thousandths:
\* the kernels and the Lanczos resampling overshoot on both sides
SharpValues == {-300, 0, 500, 1000, 1400}
SharpRanges == {r \in SharpValues \X SharpValues : r[1] <= r[2]}

NoBuffer == [h |-> 0, w |-> 0, lo |-> 0, hi |-> 0]

\* the working size: h * scale_factor by w * scale_factor when scale_factor > 1
WorkSize(h, w, scale_factor) ==
    IF scale_factor > 1 THEN <<h * scale_factor, w * scale_factor>> ELSE <<h, w>>

\* focus maps as used: one whose size differs from (h, w) is resized into a new buffer
ResizedFocusMaps(focus_maps_, h, w) ==
    [k \in 1..Len(focus_maps_) |->
        IF <<focus_maps_[k].h, focus_maps_[k].w>> # <<h, w>>
        THEN [h |-> h, w |-> w] ELSE focus_maps_[k]]

\* _blend_images without the final np.clip
BlendImagesNoClip(aligned_images, focus_maps_, scale_factor, sharp) ==
    [h |-> aligned_images[1].h, w |-> aligned_images[1].w,
     lo |-> sharp[1], hi |-> sharp[2]]

\* _blend_images: accumulate at the working size, sharpen, resize back to
\* (w, h) when scale_factor > 1, clip to [0, 1]
BlendImages(aligned_images, focus_maps_, scale_factor, sharp) ==
    LET h == aligned_images[1].h
        w == aligned_images[1].w
        new == WorkSize(h, w, scale_factor)
        resized_focus_maps == ResizedFocusMaps(focus_maps_, h, w)
        \* every image and every map is resized to the working size
        work == [k \in 1..Len(aligned_images) |-> [h |-> new[1], w |-> new[2]]]
        sharp_result == [h |-> new[1], w |-> new[2], lo |-> sharp[1], hi |-> sharp[2]]
        result_np == IF scale_factor > 1
                     THEN [sharp_result EXCEPT !.h = h, !.w = w]
                     ELSE sharp_result
    IN  [result_np EXCEPT !.lo = Clip(result_np.lo, 0, 1000),
                          !.hi = Clip(result_np.hi, 0, 1000)]

(* ------------------------- _align_images ------------------------------ *)
\* int(shape * scale)
ScaledSize(d, tenths) == (d * tenths) \div 10

\* one scale pass raises by itself when cv2.resize is given an empty size, or when
\* phase_cross_correlation is given two shapes (only at scale 1.0, where nothing
\* is resized)
PassRaises(ref, img, tenths) ==
    IF tenths # 10
    THEN ScaledSize(img.w, tenths) = 0 \/ ScaledSize(img.h, tenths) = 0
    ELSE <<ref.h, ref.w>> # <<img.h, img.w>>

\* shift = shift / scale (left alone at scale 1.0)
ScaleShift(est, tenths) ==
    Shift((est[1] * ShiftUnit * 10) \div tenths, (est[2] * ShiftUnit * 10) \div tenths)

\* a warp that hands the image back
WarpNone(img, shift) == img
\* cv2.warpAffine(img, M, (img.shape[1], img.shape[0])): a new buffer of img's size
Warp(img, shift) == [img EXCEPT !.warp = shift]
\* the second warp, by the ECC matrix
WarpECC(img) == [img EXCEPT !.ecc = TRUE]

\* the handler that drops the image
ExceptHandlerDrop(al, img) == al
\* the handler that keeps the half-aligned image
ExceptHandlerWarped(al, img) == Append(al, Warp(img, Shift(0, 0)))
\* except Exception: aligned.append(img)
ExceptHandler(al, img) == Append(al, img)

\* the loop goes to the next image, or _align_images returns
NextImage(i) ==
    /\ loc' = [NoLoc EXCEPT !.i = i + 1, !.s = 1]
    /\ pc' = IF i + 1 > Len(images) THEN "align_return" ELSE "align_gray"

\* the except branch of image i, then the next image
Fallback(i) ==
    /\ aligned' = ExceptHandler(aligned, images[i])
    /\ fallbacks' = fallbacks \cup {i}
    /\ NextImage(i)

\* process_stack's except: ... raise
Raise(e) ==
    /\ pc' = "raised"
    /\ exc' = e

\* reference = images[0]; aligned = [reference]; grayscale and normalise the
\* reference (outside every try)
AlignStart ==
    /\ pc = "align"
    /\ ran' = ran \cup {"align"}
    /\ \E fault \in BOOLEAN :
        IF fault
        THEN Raise("AlignError") /\ UNCHANGED <<aligned, loc>>
        ELSE /\ aligned' = <<images[1]>>
             /\ loc' = [NoLoc EXCEPT !.i = 2, !.s = 1]
             /\ pc' = IF 2 > Len(images) THEN "align_return" ELSE "align_gray"
             /\ exc' = exc
    /\ UNCHANGED <<image_paths, color_space, images, focus_maps, result>>
    /\ UNCHANGED <<fallbacks, obs, ctorVars, blendVars, callVars, uiVars>>

\* img_gray = cvtColor(...); normalize(...)
AlignGray ==
    /\ pc = "align_gray"
    /\ \E fault \in BOOLEAN :
        IF fault
        THEN Fallback(loc.i)
        ELSE pc' = "align_scale" /\ UNCHANGED <<aligned, loc, fallbacks>>
    /\ UNCHANGED <<image_paths, color_space, images, focus_maps, result, exc, ran, obs>>
    /\ UNCHANGED <<ctorVars, blendVars, callVars, uiVars>>

\* one pass of `for scale in scales`
AlignScalePass ==
    /\ pc = "align_scale"
    /\ LET i == loc.i
           tenths == Scales[loc.s]
       IN \E fault \in BOOLEAN, est \in Estimates, error \in Scores :
           IF fault \/ PassRaises(images[1], images[i], tenths)
           THEN Fallback(i) /\ obs' = obs
           ELSE /\ obs' = IF obs.on
                          THEN [obs EXCEPT !.log = Append(@, [tenths |-> tenths,
                                                              error |-> error,
                                                              shift |-> est])]
                          ELSE obs
                /\ loc' = [loc EXCEPT
                      !.s = loc.s + 1,
                      !.best_error = IF Less(error, loc.best_error)
                                     THEN error ELSE loc.best_error,
                      !.best_shift = IF Less(error, loc.best_error)
                                     THEN ScaleShift(est, tenths) ELSE loc.best_shift]
                /\ pc' = IF loc.s = Len(Scales) THEN "align_warp" ELSE "align_scale"
                /\ UNCHANGED <<aligned, fallbacks>>
    /\ UNCHANGED <<image_paths, color_space, images, focus_maps, result, exc, ran>>
    /\ UNCHANGED <<ctorVars, blendVars, callVars, uiVars>>

\* shift = best_shift; M = ...; aligned_img = warpAffine(img, M, ...);
\* -shift[1] on None is a TypeError
AlignWarp ==
    /\ pc = "align_warp"
    /\ LET i == loc.i
       IN \E fault \in BOOLEAN :
           IF fault \/ ~loc.best_shift.some
           THEN Fallback(i)
           ELSE IF Less(Num(EccThreshold), loc.best_error)
           THEN /\ loc' = [loc EXCEPT !.aligned_img = <<Warp(images[i], loc.best_shift)>>]
                /\ pc' = "align_ecc"
                /\ UNCHANGED <<aligned, fallbacks>>
           ELSE /\ aligned' = Append(aligned, Warp(images[i], loc.best_shift))
                /\ fallbacks' = fallbacks
                /\ NextImage(i)
    /\ UNCHANGED <<image_paths, color_space, images, focus_maps, result, exc, ran, obs>>
    /\ UNCHANGED <<ctorVars, blendVars, callVars, uiVars>>

\* the inner try with its failure handled like the outer one: the original image
AlignECCFallback ==
    /\ pc = "align_ecc"
    /\ \E fault \in BOOLEAN :
        /\ aligned' = Append(aligned, IF fault THEN images[loc.i]
                                               ELSE WarpECC(loc.aligned_img[1]))
        /\ fallbacks' = IF fault THEN fallbacks \cup {loc.i} ELSE fallbacks
        /\ obs' = IF obs.on THEN [obs EXCEPT !.ecc = IF fault THEN "raised" ELSE "ok"]
                           ELSE obs
    /\ NextImage(loc.i)
    /\ UNCHANGED <<image_paths, color_space, images, focus_maps, result, exc, ran>>
    /\ UNCHANGED <<ctorVars, blendVars, callVars, uiVars>>

\* the inner try: findTransformECC and the second warp, or the warning only
AlignECC ==
    /\ pc = "align_ecc"
    /\ \E fault \in BOOLEAN :
        /\ aligned' = Append(aligned, IF fault THEN loc.aligned_img[1]
                                               ELSE WarpECC(loc.aligned_img[1]))
        /\ obs' = IF obs.on THEN [obs EXCEPT !.ecc = IF fault THEN "raised" ELSE "ok"]
                           ELSE obs
    /\ NextImage(loc.i)
    /\ UNCHANGED <<image_paths, color_space, images, focus_maps, result, exc, ran>>
    /\ UNCHANGED <<fallbacks, ctorVars, blendVars, callVars, uiVars>>

\* process_stack going from alignment straight to the blend
AlignReturnSkipMeasure ==
    /\ pc = "align_return"
    /\ pc' = "blend"
    /\ loc' = NoLoc
    /\ UNCHANGED <<image_paths, color_space, images, aligned, focus_maps, result, exc, ran>>
    /\ UNCHANGED <<fallbacks, obs, ctorVars, blendVars, callVars, uiVars>>

\* return aligned
AlignReturn ==
    /\ pc = "align_return"
    /\ pc' = "measure"
    /\ loc' = NoLoc
    /\ UNCHANGED <<image_paths, color_space, images, aligned, focus_maps, result, exc, ran>>
    /\ UNCHANGED <<fallbacks, obs, ctorVars, blendVars, callVars, uiVars>>

(* ------------------------- process_stack ------------------------------ *)
\* the length check with the bound one too low (a one-image stack passes)
ProcessStackCheckOffByOne ==
    /\ pc = "call"
    /\ IF Len(image_paths) < MinStack - 1
       THEN Raise("ValueError") /\ ran' = ran
       ELSE pc' = "load" /\ exc' = exc /\ ran' = ran \cup {"load"}
    /\ UNCHANGED <<image_paths, color_space, images, aligned, loc, focus_maps, result>>
    /\ UNCHANGED <<fallbacks, obs, ctorVars, blendVars, callVars, uiVars>>

\* if len(image_paths) < 2: raise ValueError
ProcessStackCheck ==
    /\ pc = "call"
    /\ IF Len(image_paths) < MinStack
       THEN Raise("ValueError") /\ ran' = ran
       ELSE pc' = "load" /\ exc' = exc /\ ran' = ran \cup {"load"}
    /\ UNCHANGED <<image_paths, color_space, images, aligned, loc, focus_maps, result>>
    /\ UNCHANGED <<fallbacks, obs, ctorVars, blendVars, callVars, uiVars>>

\* one pass of the loading loop: _load_image raises when cv2.imread returns None
LoadStep ==
    /\ pc = "load"
    /\ LET j == Len(images) + 1
       IN IF ~image_paths[j].ok
          THEN Raise("ValueError") /\ images' = images
          ELSE /\ images' = Append(images, LoadImage(j, image_paths[j]))
               /\ pc' = IF j = Len(image_paths) THEN "align" ELSE "load"
               /\ exc' = exc
    /\ UNCHANGED <<image_paths, color_space, aligned, loc, focus_maps, result, ran>>
    /\ UNCHANGED <<fallbacks, obs, ctorVars, blendVars, callVars, uiVars>>

\* _focus_measure: a map of the image's height and width
FocusMeasure(img) == [h |-> img.h, w |-> img.w]

\* one pass of the focus-measure loop
MeasureStep ==
    /\ pc = "measure"
    /\ ran' = ran \cup {"measure"}
    /\ LET j == Len(focus_maps) + 1
       IN \E fault \in BOOLEAN :
           IF fault
           THEN Raise("MeasureError") /\ focus_maps' = focus_maps
           ELSE /\ focus_maps' = Append(focus_maps, FocusMeasure(aligned[j]))
                /\ pc' = IF j = Len(aligned) THEN "blend" ELSE "measure"
                /\ exc' = exc
    /\ UNCHANGED <<image_paths, color_space, images, aligned, loc, result>>
    /\ UNCHANGED <<fallbacks, obs, ctorVars, blendVars, callVars, uiVars>>

\* the blend with each mismatched focus map resized in the caller's list
BlendStepResizeInPlace ==
    /\ pc = "blend"
    /\ ran' = ran \cup {"blend"}
    /\ focus_maps' = ResizedFocusMaps(focus_maps, aligned[1].h, aligned[1].w)
    /\ \E fault \in BOOLEAN, sharp \in SharpRanges :
        IF fault
        THEN Raise("BlendError") /\ result' = result
        ELSE /\ result' = BlendImages(aligned, focus_maps, stacker.scale_factor, sharp)
             /\ pc' = IF color_space # "sRGB" THEN "convert" ELSE "done"
             /\ exc' = exc
    /\ UNCHANGED <<image_paths, color_space, images, aligned, loc>>
    /\ UNCHANGED <<fallbacks, obs, ctorVars, blendVars, callVars, uiVars>>

\* result = self._blend_images(aligned, focus_maps)
BlendStep ==
    /\ pc = "blend"
    /\ ran' = ran \cup {"blend"}
    /\ \E fault \in BOOLEAN, sharp \in SharpRanges :
        IF fault
        THEN Raise("BlendError") /\ result' = result
        ELSE /\ result' = BlendImages(aligned, focus_maps, stacker.scale_factor, sharp)
             /\ pc' = IF color_space # "sRGB" THEN "convert" ELSE "done"
             /\ exc' = exc
    /\ UNCHANGED <<image_paths, color_space, images, aligned, loc, focus_maps>>
    /\ UNCHANGED <<fallbacks, obs, ctorVars, blendVars, callVars, uiVars>>

\* _convert_color_space: self.color_profiles[target_space] is a KeyError for a
\* space _init_color_profiles did not create
ConvertColorSpace(img, target_space, color_profiles) ==
    IF target_space \in color_profiles
    THEN [exc |-> "none",
          \* (img * 255).astype('uint8'), the transform, then / 255
          img |-> [img EXCEPT !.lo = (((img.lo * 255) \div 1000) * 1000) \div 255,
                              !.hi = (((img.hi * 255) \div 1000) * 1000) \div 255]]
    ELSE [exc |-> "KeyError", img |-> img]

\* if color_space != 'sRGB': result = self._convert_color_space(result, color_space)
ConvertStep ==
    /\ pc = "convert"
    /\ ran' = ran \cup {"convert"}
    /\ LET converted == ConvertColorSpace(result, color_space, stacker.color_profiles)
       IN IF converted.exc = "none"
          THEN pc' = "done" /\ exc' = exc /\ result' = converted.img
          ELSE Raise(converted.exc) /\ result' = result
    /\ UNCHANGED <<image_paths, color_space, images, aligned, loc, focus_maps>>
    /\ UNCHANGED <<fallbacks, obs, ctorVars, blendVars, callVars, uiVars>>

PathLists == UNION {[1..n -> Files] : n \in 0..MaxImages}

CtorIdle == ctor_args = DefaultArgs /\ stacker = DefaultStacker /\ ctor_exc = "none"
StackIdle ==
    /\ image_paths = <<>> /\ color_space = "sRGB" /\ pc = "idle"
    /\ images = <<>> /\ aligned = <<>> /\ loc = NoLoc /\ focus_maps = <<>>
    /\ result = NoBuffer /\ exc = "none" /\ ran = {} /\ fallbacks = {}
    /\ obs = NoObs
NoBlendIn == [images |-> <<>>, focus_maps |-> <<>>, scale_factor |-> 0, sharp |-> <<0, 0>>]
BlendIdle == blend_in = NoBlendIn /\ blend_out = NoBuffer
NoCall == [fn |-> "none"]
NoReturn == [exc |-> "unset"]
CallIdle == call_in = NoCall /\ call_out = NoReturn
\* batch: Process Stack clicks so far; n: len(self.stacks) at the last of them;
\* stopped: workers stop_processing stopped while running; saved, save_failed:
\* workers whose result save_image wrote or failed to write; failed: workers whose
\* error signal processing_error handled
NoHist ==
    [batch |-> 0, n |-> 0, stopped |-> {}, saved |-> {}, save_failed |-> {}, failed |-> {}]
UIIdle ==
    /\ stacks = 0 /\ current_stack = 0 /\ results = <<>> /\ thread = 0
    /\ workers = <<>> /\ queue = <<>> /\ mainpc = "idle" /\ hist = NoHist

Init ==
    /\ image_paths \in PathLists
    /\ color_space \in ColorSpaces
    /\ pc = "call"
    /\ images = <<>> /\ aligned = <<>> /\ loc = NoLoc /\ focus_maps = <<>>
    /\ result = NoBuffer /\ exc = "none" /\ ran = {} /\ fallbacks = {}
    /\ obs = NoObs
    /\ CtorIdle /\ BlendIdle /\ CallIdle /\ UIIdle

Next ==
    \/ ProcessStackCheck
    \/ LoadStep
    \/ AlignStart
    \/ AlignGray
    \/ AlignScalePass
    \/ AlignWarp
    \/ AlignECC
    \/ AlignReturn
    \/ MeasureStep
    \/ BlendStep
    \/ ConvertStep

Spec == Init /\ [][Next]_vars

(* ---------------------- the constructor on its own -------------------- *)
InitCtor ==
    /\ ctor_args = NoArgs /\ stacker = NoInstance /\ ctor_exc = "unset"
    /\ StackIdle /\ BlendIdle /\ CallIdle /\ UIIdle

NextCtor == \E a \in CtorArgs : Construct(a)

SpecCtor == InitCtor /\ [][NextCtor]_vars

(* ----------- _align_images on one pair of images, watched ------------- *)
\* process_stack about to call _align_images on a loaded pair: a reference of
\* the smallest size and a second image of any size
InitAlign ==
    /\ \E f \in Files :
        /\ f.ok
        /\ image_paths = <<[h |-> MinDim, w |-> MinDim, ok |-> TRUE], f>>
    /\ images = [j \in 1..MinStack |-> LoadImage(j, image_paths[j])]
    /\ color_space = "sRGB"
    /\ pc = "align"
    /\ aligned = <<>> /\ loc = NoLoc /\ focus_maps = <<>>
    /\ result = NoBuffer /\ exc = "none" /\ ran = {"load"} /\ fallbacks = {}
    /\ obs = [NoObs EXCEPT !.on = TRUE]
    /\ CtorIdle /\ BlendIdle /\ CallIdle /\ UIIdle

NextAlign ==
    \/ AlignStart
    \/ AlignGray
    \/ AlignScalePass
    \/ AlignWarp
    \/ AlignECC
    \/ AlignReturn

SpecAlign == InitAlign /\ [][NextAlign]_vars

(* --------------------- _blend_images on its own ----------------------- *)
\* a focus map for an image: of the image's size, or one row taller
MapFor(img, taller) == [h |-> IF taller THEN img.h + 1 ELSE img.h, w |-> img.w]

InitBlend ==
    /\ \E n \in 1..MaxImages :
        \E imgs \in [1..n -> [h : Dims, w : Dims]], taller \in [1..n -> BOOLEAN],
           sf \in MinScaleFactor..MaxScaleFactor, sh \in SharpRanges :
            blend_in = [images |-> imgs,
                        focus_maps |-> [k \in 1..n |-> MapFor(imgs[k], taller[k])],
                        scale_factor |-> sf, sharp |-> sh]
    /\ blend_out = NoBuffer
    /\ CtorIdle /\ StackIdle /\ CallIdle /\ UIIdle

\* a call self._blend_images(aligned_images, focus_maps)
BlendCall ==
    /\ blend_out = NoBuffer
    /\ blend_out' = BlendImages(blend_in.images, blend_in.focus_maps,
                                blend_in.scale_factor, blend_in.sharp)
    /\ UNCHANGED <<blend_in, ctorVars, stackVars, callVars, uiVars>>

NextBlend == BlendCall

SpecBlend == InitBlend /\ [][NextBlend]_vars

(* ============ MainWindow and FocusStackingThread (main.py) ============ *)
\* FocusStackingThread.__init__ and start(): stopped = False, run() entered
NewWorker(k, batch) ==
    [k |-> k, batch |-> batch, pc |-> "processing", stopped |-> FALSE, emitted |-> "none"]

Workers == 1..Len(workers)
\* QThread.isRunning()
IsRunning(w) == workers[w].pc # "done"
\* the worker is inside self.stacker.process_stack(...)
InProcessStack(w) == workers[w].pc = "processing"

\* the model starts at most MaxWorkers threads: a handler that would start one
\* more is not taken
CanStart(cs) == cs >= stacks \/ Len(workers) < MaxWorkers

\* _process_next_stack: all stacks done, or a new thread for stacks[current_stack]
ProcessNextStack(cs, batch) ==
    IF cs >= stacks
    THEN UNCHANGED <<workers, thread>>
    ELSE /\ workers' = Append(workers, NewWorker(cs, batch))
         /\ thread' = Len(workers) + 1

\* load_images with the dialog accepted: self.stacks = split_into_stacks(...)
LoadImages(n) ==
    /\ mainpc = "idle"
    /\ stacks' = n
    /\ UNCHANGED <<current_stack, results, thread, workers, queue, mainpc, hist>>
    /\ UNCHANGED <<ctorVars, stackVars, blendVars, callVars>>

\* MainWindow.process_stack (the Process Stack button), past the hasattr check
ProcessClick ==
    /\ mainpc = "idle"
    /\ stacks # 0
    /\ CanStart(0)
    /\ current_stack' = 0
    /\ results' = <<>>
    /\ hist' = [hist EXCEPT !.batch = @ + 1, !.n = stacks]
    /\ ProcessNextStack(0, hist.batch + 1)
    /\ UNCHANGED <<stacks, queue, mainpc>>
    /\ UNCHANGED <<ctorVars, stackVars, blendVars, callVars>>

\* stop_processing up to thread.wait(): taken only for a running self.thread
StopClick ==
    /\ mainpc = "idle"
    /\ thread # 0
    /\ IsRunning(thread)
    /\ workers' = [workers EXCEPT ![thread].stopped = TRUE]
    /\ mainpc' = "wait"
    /\ hist' = [hist EXCEPT !.stopped = @ \cup {thread}]
    /\ UNCHANGED <<stacks, current_stack, results, thread, queue>>
    /\ UNCHANGED <<ctorVars, stackVars, blendVars, callVars>>

\* thread.wait() returns once run() has returned; the UI is reset
StopWaitDone ==
    /\ mainpc = "wait"
    /\ ~IsRunning(thread)
    /\ mainpc' = "idle"
    /\ UNCHANGED <<stacks, current_stack, results, thread, workers, queue, hist>>
    /\ UNCHANGED <<ctorVars, stackVars, blendVars, callVars>>

\* run(): self.stacker.process_stack(...) returns a result or raises
WorkerProcess(w) ==
    /\ workers[w].pc = "processing"
    /\ \E outcome \in {"returned", "raised"} :
        workers' = [workers EXCEPT ![w].pc = outcome]
    /\ UNCHANGED <<stacks, current_stack, results, thread, queue, mainpc, hist>>
    /\ UNCHANGED <<ctorVars, stackVars, blendVars, callVars>>

\* run() emitting its signal whatever the stopped flag says
WorkerEmitAlways(w) ==
    /\ workers[w].pc \in {"returned", "raised"}
    /\ LET sig == IF workers[w].pc = "returned" THEN "finished" ELSE "error"
       IN /\ queue' = Append(queue, [sig |-> sig, w |-> w])
          /\ workers' = [workers EXCEPT ![w].pc = "exiting", ![w].emitted = sig]
    /\ UNCHANGED <<stacks, current_stack, results, thread, mainpc, hist>>
    /\ UNCHANGED <<ctorVars, stackVars, blendVars, callVars>>

\* run(): if not self.stopped: emit finished (after a return) or error (in the
\* except branch); the signal is queued for the UI thread
WorkerEmit(w) ==
    /\ workers[w].pc \in {"returned", "raised"}
    /\ LET sig == IF workers[w].pc = "returned" THEN "finished" ELSE "error"
       IN IF ~workers[w].stopped
          THEN /\ queue' = Append(queue, [sig |-> sig, w |-> w])
               /\ workers' = [workers EXCEPT ![w].pc = "exiting", ![w].emitted = sig]
          ELSE /\ queue' = queue
               /\ workers' = [workers EXCEPT ![w].pc = "exiting"]
    /\ UNCHANGED <<stacks, current_stack, results, thread, mainpc, hist>>
    /\ UNCHANGED <<ctorVars, stackVars, blendVars, callVars>>

\* run() returns: the thread is no longer running
WorkerExit(w) ==
    /\ workers[w].pc = "exiting"
    /\ workers' = [workers EXCEPT ![w].pc = "done"]
    /\ UNCHANGED <<stacks, current_stack, results, thread, queue, mainpc, hist>>
    /\ UNCHANGED <<ctorVars, stackVars, blendVars, callVars>>

\* processing_one_finished with the append outside the try
ProcessingOneFinishedAppendAlways(w, ok) ==
    /\ results' = Append(results, w)
    /\ hist' = IF ok THEN [hist EXCEPT !.saved = @ \cup {w}]
                     ELSE [hist EXCEPT !.save_failed = @ \cup {w}]
    /\ current_stack' = current_stack + 1
    /\ ProcessNextStack(current_stack + 1, hist.batch)

\* processing_one_finished(result): save_image, append on success only, then
\* current_stack += 1 and _process_next_stack whether the save worked or not
ProcessingOneFinished(w, ok) ==
    /\ results' = IF ok THEN Append(results, w) ELSE results
    /\ hist' = IF ok THEN [hist EXCEPT !.saved = @ \cup {w}]
                     ELSE [hist EXCEPT !.save_failed = @ \cup {w}]
    /\ current_stack' = current_stack + 1
    /\ ProcessNextStack(current_stack + 1, hist.batch)

\* processing_error(error_msg): a message box and a UI reset, nothing else
ProcessingError(w) ==
    /\ hist' = [hist EXCEPT !.failed = @ \cup {w}]
    /\ UNCHANGED <<current_stack, results, thread, workers>>

\* the UI thread takes the next queued `finished` signal
DeliverFinished ==
    /\ mainpc = "idle"
    /\ queue # <<>>
    /\ Head(queue).sig = "finished"
    /\ CanStart(current_stack + 1)
    /\ queue' = Tail(queue)
    /\ \E ok \in BOOLEAN : ProcessingOneFinished(Head(queue).w, ok)
    /\ UNCHANGED <<stacks, mainpc>>
    /\ UNCHANGED <<ctorVars, stackVars, blendVars, callVars>>

\* the UI thread takes the next queued `error` signal
DeliverError ==
    /\ mainpc = "idle"
    /\ queue # <<>>
    /\ Head(queue).sig = "error"
    /\ queue' = Tail(queue)
    /\ ProcessingError(Head(queue).w)
    /\ UNCHANGED <<stacks, mainpc>>
    /\ UNCHANGED <<ctorVars, stackVars, blendVars, callVars>>

InitUI ==
    /\ UIIdle
    /\ CtorIdle /\ StackIdle /\ BlendIdle /\ CallIdle

NextUI ==
    \/ \E n \in 1..MaxStacks : LoadImages(n)
    \/ ProcessClick
    \/ StopClick
    \/ StopWaitDone
    \/ \E w \in Workers : WorkerProcess(w)
    \/ \E w \in Workers : WorkerEmit(w)
    \/ \E w \in Workers : WorkerExit(w)
    \/ DeliverFinished
    \/ DeliverError

SpecUI == InitUI /\ [][NextUI]_vars

(* ============== methods of FocusStacker called on their own =========== *)
\* 1.0 in thousandths
One == 1000

Abs(x) == IF x < 0 THEN -x ELSE x
SeqMax(f) == CHOOSE m \in {f[k] : k \in 1..Len(f)} : \A k \in 1..Len(f) : f[k] <= m
SeqMin(f) == CHOOSE m \in {f[k] : k \in 1..Len(f)} : \A k \in 1..Len(f) : f[k] >= m

\* (x - lo) / (hi - lo + 1e-6) in thousandths, rounded down, for x, lo, hi whole
\* numbers of a unit of at least one thousandth: 0 when hi = lo, otherwise just
\* under the exact quotient (the 1e-6 is less than one thousandth of the unit)
Normalise(x, lo, hi) ==
    IF hi = lo THEN 0
    ELSE IF x > lo /\ ((x - lo) * One) % (hi - lo) = 0
    THEN ((x - lo) * One) \div (hi - lo) - 1
    ELSE ((x - lo) * One) \div (hi - lo)

(* --------------------------- _focus_measure --------------------------- *)
\* the grey image has every row equal to p, so the 3x3 filters reduce to one row;
\* cv2's default border mirrors about the edge pixel
Reflect101(x, w) == IF x < 1 THEN 2 - x ELSE IF x > w THEN 2 * w - x ELSE x
\* cv2.Sobel(img, CV_32F, 1, 0, ksize=3): the column weights 1, 2, 1 add up to 4
SobelX(p) ==
    [x \in 1..Len(p) |->
        4 * (p[Reflect101(x + 1, Len(p))] - p[Reflect101(x - 1, Len(p))])]
\* cv2.Laplacian(img, CV_32F): the rows above and below cancel two of the -4
Laplacian(p) ==
    [x \in 1..Len(p) |->
        p[Reflect101(x - 1, Len(p))] + p[Reflect101(x + 1, Len(p))] - 2 * p[x]]

\* focus_map after the loop over scales, in tenths of a measure unit: the scale
\* 1.0 term is high_freq * edge_strength * local_contrast * scaled_grad with
\* weight 0.6, where tex[x] is what the two Gaussian differences multiply to;
\* coarse[x] is what the two resized scales add, nothing when the Laplacian or
\* the gradient is zero everywhere
RawFocusMap(p, tex, coarse) ==
    LET grad == [x \in 1..Len(p) |-> Abs(SobelX(p)[x])]
        lap == Laplacian(p)
        flat == (\A x \in 1..Len(p) : lap[x] = 0) \/ (\A x \in 1..Len(p) : grad[x] = 0)
    IN  [x \in 1..Len(p) |->
            6 * tex[x] * Abs(lap[x]) * grad[x] + (IF flat THEN 0 ELSE coarse[x])]

\* focus_map * (1.0 + 0.2 * edge_mask) after the first normalisation
BoostedFocusMap(p, tex, coarse) ==
    LET raw == RawFocusMap(p, tex, coarse)
        abs_lap == [x \in 1..Len(p) |-> Abs(Laplacian(p)[x])]
        focus_map == [x \in 1..Len(p) |-> Normalise(raw[x], SeqMin(raw), SeqMax(raw))]
        edge_mask == [x \in 1..Len(p) |->
                         Clip(Normalise(abs_lap[x], 0, SeqMax(abs_lap)), 0, One)]
    IN  [x \in 1..Len(p) |-> (focus_map[x] * (One + edge_mask[x] \div 5)) \div One]

\* _focus_measure returning the boosted map as it is
FocusMeasureMapNoRenorm(p, tex, coarse) == BoostedFocusMap(p, tex, coarse)

\* _focus_measure: the values of the returned map, in thousandths
FocusMeasureMap(p, tex, coarse) ==
    LET boosted == BoostedFocusMap(p, tex, coarse)
    IN  [x \in 1..Len(p) |->
            Clip(Normalise(boosted[x], SeqMin(boosted), SeqMax(boosted)), 0, One)]

\* grey levels of the uint8 image, and what the blurred differences come to
Gray == {0, 2, 5}
TexValues == {0, 1, 2}
CoarseValues == {0, 3}

InitFocus ==
    /\ \E p \in [1..FocusWidth -> Gray], tex \in [1..FocusWidth -> TexValues],
          coarse \in [1..FocusWidth -> CoarseValues] :
            call_in = [fn |-> "_focus_measure", img |-> p, tex |-> tex, coarse |-> coarse]
    /\ call_out = NoReturn
    /\ CtorIdle /\ StackIdle /\ BlendIdle /\ UIIdle

\* a call self._focus_measure(img)
FocusMeasureCall ==
    /\ call_in.fn = "_focus_measure" /\ call_out = NoReturn
    /\ call_out' = [exc |-> "none",
                    map |-> FocusMeasureMap(call_in.img, call_in.tex, call_in.coarse)]
    /\ UNCHANGED <<call_in, ctorVars, stackVars, blendVars, uiVars>>

NextFocus == FocusMeasureCall

SpecFocus == InitFocus /\ [][NextFocus]_vars

(* ------- _blend_images on one image with a uniform focus map ---------- *)
\* the 3x3 kernels, row by row
sharp_kernel == <<-4, -4, -4, -4, 33, -4, -4, -4, -4>>
highfreq_kernel == <<-2, -3, -2, -3, 25, -3, -2, -3, -2>>
detail_kernel == <<-1, -2, -1, -2, 13, -2, -1, -2, -1>>

RECURSIVE SeqSum(_)
SeqSum(q) == IF q = <<>> THEN 0 ELSE q[1] + SeqSum(Tail(q))

\* ifft2(fft2(channel) * fft2(kernel, s=shape)) on a channel that holds x at
\* every pixel: the circular convolution adds the kernel up
ConvolveUniform(x, kernel) == x * SeqSum(kernel)

\* result = result / (weights_sum + 1e-10) for one image: the pixel where the
\* weight is positive, 0 where the weight is 0
Accumulate(pixel, weight) == IF weight = 0 THEN 0 ELSE pixel

\* (x - result_min) * (ref_range / (result_max - result_min + 1e-6)) + ref_min
RangeRestore(x, result_min, result_max, ref_min, ref_max) ==
    IF result_max = result_min
    THEN ref_min
    ELSE ((x - result_min) * (ref_max - ref_min)) \div (result_max - result_min) + ref_min

\* clip to the channel's range, then (x - channel_mean) * 1.1 + channel_mean
ChannelStretch(x, ch) == ((Clip(x, ch.min, ch.max) - ch.mean) * 11) \div 10 + ch.mean

\* the sharpening of one channel that holds x at every pixel, where the focus
\* map holds f at every pixel: local_var and the Laplacian are flat, so
\* detail_mask and contrast_mask sit at their lower clip bounds
SharpenUniform(x, f) ==
    LET focus_mask == Clip(One - f, 300, One)
        detail_mask == Clip(Normalise(0, 0, 0), 400, One)
        sharp_strength == Clip((focus_mask * (1400 + (4 * detail_mask) \div 10)) \div One,
                               800, 990)
        contrast_mask == Clip(Normalise(0, 0, 0), 200, 600)
        sharp == ConvolveUniform(x, sharp_kernel)
        high_freq == ConvolveUniform(x, highfreq_kernel)
        fine_detail == ConvolveUniform(x, detail_kernel)
    IN  x + (sharp * sharp_strength * contrast_mask) \div (2 * One * One)
          + (high_freq * contrast_mask) \div (5 * One)
          + (fine_detail * contrast_mask) \div (10 * One)

\* _blend_images([img], [fm]) where fm holds f at every pixel and channel c of
\* img has the minimum, mean and maximum channels[c]: the value every pixel of
\* each channel of the returned composite holds
BlendUniform(channels, f) ==
    LET weight == Normalise(f, f, f)
        \* every pixel of result after the division by weights_sum + 1e-10
        result_ == Accumulate(channels[1].mean, weight)
        ref_min == SeqMin([c \in 1..3 |-> channels[c].min])
        ref_max == SeqMax([c \in 1..3 |-> channels[c].max])
        restored == RangeRestore(result_, result_, result_, ref_min, ref_max)
    IN  [c \in 1..3 |->
            Clip(SharpenUniform(Clip(ChannelStretch(restored, channels[c]), 0, ref_max), f),
                 0, One)]

\* pixel levels, and a channel by its minimum, mean and maximum
Levels == {0, 200, 500, 1000}
ChannelStats ==
    {ch \in [min : Levels, mean : Levels, max : Levels] :
        \/ ch.min = ch.mean /\ ch.mean = ch.max
        \/ ch.min < ch.mean /\ ch.mean < ch.max}

InitBlendUniform ==
    /\ \E channels \in [1..3 -> ChannelStats], f \in {0, 500, One} :
            call_in = [fn |-> "_blend_images", channels |-> channels, f |-> f]
    /\ call_out = NoReturn
    /\ CtorIdle /\ StackIdle /\ BlendIdle /\ UIIdle

\* a call self._blend_images([img], [fm]) with fm uniform
BlendUniformCall ==
    /\ call_in.fn = "_blend_images" /\ call_out = NoReturn
    /\ call_out' = [exc |-> "none", value |-> BlendUniform(call_in.channels, call_in.f)]
    /\ UNCHANGED <<call_in, ctorVars, stackVars, blendVars, uiVars>>

NextBlendUniform == BlendUniformCall

SpecBlendUniform == InitBlendUniform /\ [][NextBlendUniform]_vars

(* ----------------------------- save_image ----------------------------- *)
\* the format values handed to save_image
Formats == {"JPEG", "jpeg", "Jpeg", "JPG", "PNG", "png", "TIFF"}
\* str.upper()
Upper(format) ==
    CASE format \in {"JPEG", "jpeg", "Jpeg"} -> "JPEG"
      [] format \in {"PNG", "png"} -> "PNG"
      [] OTHER -> format

\* astype(np.uint8) without the + 0.5
QuantiseTruncate(v) == Clip(v * 255, 0, 255 * One) \div One
\* np.clip(img * 255.0 + 0.5, 0, 255).astype(np.uint8) on one value in thousandths
Quantise(v) == Clip(v * 255 + One \div 2, 0, 255 * One) \div One

NoCodecCall == [format |-> "none", quality |-> 0, optimize |-> FALSE, data |-> 0]

\* save_image(img, path, format): what it raises, the call pil_img.save received,
\* and whether path was written (io_ok: the codec could write the file)
SaveImage(v, format, io_ok) ==
    LET img_8bit == Quantise(v)
    IN  IF Upper(format) = "JPEG"
        THEN [exc |-> IF io_ok THEN "none" ELSE "OSError",
              codec |-> [format |-> "JPEG", quality |-> JpegQuality, optimize |-> TRUE,
                         data |-> img_8bit],
              written |-> io_ok]
        ELSE [exc |-> "ValueError", codec |-> NoCodecCall, written |-> FALSE]

\* one value of the float image, from a little under 0 to a little over 1
PixelValues == (-PixelSlack)..(One + PixelSlack)

InitSave ==
    /\ \E v \in PixelValues, format \in Formats, io_ok \in BOOLEAN :
            call_in = [fn |-> "save_image", img |-> v, format |-> format, io_ok |-> io_ok]
    /\ call_out = NoReturn
    /\ CtorIdle /\ StackIdle /\ BlendIdle /\ UIIdle

\* a call self.stacker.save_image(img, path, format)
SaveCall ==
    /\ call_in.fn = "save_image" /\ call_out = NoReturn
    /\ call_out' = SaveImage(call_in.img, call_in.format, call_in.io_ok)
    /\ UNCHANGED <<call_in, ctorVars, stackVars, blendVars, uiVars>>

NextSave == SaveCall

SpecSave == InitSave /\ [][NextSave]_vars

(* -------------------------- split_into_stacks -------------------------- *)
\* a path is the file name without its directory and extension, one character
\* per element; every path of a selection has the same directory and extension
IsDigit(c) == c \in {"0", "1", "2", "3", "4", "5", "6", "7", "8", "9"}
\* [-_]
IsSep(c) == c \in {"-", "_"}
\* ord(c) for the characters used, "." being where the extension starts
Code(c) ==
    CASE c = "-" -> 45 [] c = "." -> 46 [] c = "1" -> 49 [] c = "2" -> 50
      [] c = "_" -> 95 [] c = "a" -> 97 [] c = "b" -> 98

\* a < b on strings
RECURSIVE StrLess(_, _)
StrLess(a, b) ==
    IF b = <<>> THEN FALSE
    ELSE IF a = <<>> THEN TRUE
    ELSE IF a[1] # b[1] THEN Code(a[1]) < Code(b[1])
    ELSE StrLess(Tail(a), Tail(b))
\* path a sorts before path b
PathLess(a, b) == StrLess(Append(a, "."), Append(b, "."))

NoMatch == <<>>
\* re.match(r'^(.*?)[-_]?(\d+)$', name): the digits the name ends with, and
\* what stands before them less one separator
Match1(name) ==
    LET n == Len(name)
        d == CHOOSE k \in 0..n :
                /\ \A j \in (n - k + 1)..n : IsDigit(name[j])
                /\ k < n => ~IsDigit(name[n - k])
        p == IF n - d >= 1 /\ IsSep(name[n - d]) THEN n - d - 1 ELSE n - d
    IN  IF d = 0 THEN NoMatch
        ELSE <<SubSeq(name, 1, p), SubSeq(name, n - d + 1, n)>>

\* the run of digits starting at s ends at RunEnd(name, s)
RunEnd(name, s) ==
    CHOOSE e \in s..Len(name) :
        /\ \A j \in s..e : IsDigit(name[j])
        /\ e < Len(name) => ~IsDigit(name[e + 1])
\* the starts of the runs of digits that a separator follows
RunsBeforeSep(name) ==
    {s \in 1..Len(name) :
        /\ IsDigit(name[s]) /\ (s > 1 => ~IsDigit(name[s - 1]))
        /\ RunEnd(name, s) < Len(name) /\ IsSep(name[RunEnd(name, s) + 1])}
\* re.match(r'^(.*?)[-_]?(\d+)[-_]', name): the first run of digits followed by
\* a separator, and what stands before it less one separator
Match2(name) ==
    IF RunsBeforeSep(name) = {} THEN NoMatch
    ELSE LET s == CHOOSE x \in RunsBeforeSep(name) : \A y \in RunsBeforeSep(name) : x <= y
             p == IF s >= 2 /\ IsSep(name[s - 1]) THEN s - 2 ELSE s - 1
         IN  <<SubSeq(name, 1, p), SubSeq(name, s, RunEnd(name, s))>>

\* re.match(r'(\d+)[-_]?(.*?)$', name): the digits the name starts with, and
\* what follows them less one separator
Match3(name) ==
    IF name = <<>> \/ ~IsDigit(name[1]) THEN NoMatch
    ELSE LET l == RunEnd(name, 1)
             r == IF l < Len(name) /\ IsSep(name[l + 1]) THEN l + 2 ELSE l + 1
         IN  <<SubSeq(name, 1, l), SubSeq(name, r, Len(name))>>

\* the groups of the first pattern that matches
FirstMatch(name) ==
    IF Match1(name) # NoMatch THEN Match1(name)
    ELSE IF Match2(name) # NoMatch THEN Match2(name)
    ELSE Match3(name)

\* groups[0] if len(groups[0]) > len(groups[1]) else groups[1]; the name itself
\* when no pattern matches
BaseName(name) ==
    LET groups == FirstMatch(name)
    IN  IF groups = NoMatch THEN name
        ELSE IF Len(groups[1]) > Len(groups[2]) THEN groups[1] ELSE groups[2]

\* stacks_dict[base_name].append(path), the key created when it is new
AppendTo(dict, base_name, path) ==
    IF \E k \in 1..Len(dict) : dict[k].base = base_name
    THEN [k \in 1..Len(dict) |->
             IF dict[k].base = base_name
             THEN [dict[k] EXCEPT !.paths = Append(@, path)] ELSE dict[k]]
    ELSE Append(dict, [base |-> base_name, paths |-> <<path>>])
\* one pass of the loop without its `if not matched` branch
AddPathMatchedOnly(dict, path) ==
    IF FirstMatch(path) = NoMatch THEN dict ELSE AppendTo(dict, BaseName(path), path)
\* one pass of `for path in image_paths`
AddPath(dict, path) == AppendTo(dict, BaseName(path), path)

\* the loop over image_paths, on a dict that keeps insertion order
RECURSIVE StacksDict(_, _)
StacksDict(paths, dict) ==
    IF paths = <<>> THEN dict
    ELSE StacksDict(Tail(paths), AddPath(dict, paths[1]))

\* list.sort() on paths
RECURSIVE InsertPath(_, _)
InsertPath(x, q) ==
    IF q = <<>> THEN <<x>>
    ELSE IF PathLess(x, q[1]) THEN <<x>> \o q
    ELSE <<q[1]>> \o InsertPath(x, Tail(q))
RECURSIVE SortPaths(_)
SortPaths(q) ==
    IF q = <<>> THEN <<>> ELSE InsertPath(q[Len(q)], SortPaths(SubSeq(q, 1, Len(q) - 1)))

\* stacks.sort(key=lambda x: x[0]), a stable sort
RECURSIVE InsertStack(_, _)
InsertStack(x, q) ==
    IF q = <<>> THEN <<x>>
    ELSE IF PathLess(x[1], q[1][1]) THEN <<x>> \o q
    ELSE <<q[1]>> \o InsertStack(x, Tail(q))
RECURSIVE SortStacks(_)
SortStacks(q) ==
    IF q = <<>> THEN <<>> ELSE InsertStack(q[Len(q)], SortStacks(SubSeq(q, 1, Len(q) - 1)))

\* split_into_stacks(image_paths, stack_size): the stacks returned, and the
\* stacks a size warning was printed for
SplitIntoStacks(paths, stack_size) ==
    LET dict == StacksDict(paths, <<>>)
        unsorted == [k \in 1..Len(dict) |-> SortPaths(dict[k].paths)]
    IN  [exc |-> "none",
         stacks |-> SortStacks(unsorted),
         warned |-> {unsorted[k] : k \in {j \in 1..Len(unsorted) :
                                             Len(unsorted[j]) # stack_size}}]

\* file names of the kinds the three patterns tell apart
Names ==
    {<<"a", "1">>, <<"a", "2">>, <<"b", "_", "1">>, <<"a", "b", "-", "2">>,
     <<"1", "2">>, <<"1", "a">>, <<"2", "_", "a", "b">>, <<"a">>, <<"a", "-">>,
     <<"a", "1", "b">>, <<"a", "1", "_", "b">>, <<"a", "_", "2", "-", "b">>}

\* lists of distinct paths
DistinctLists(n) == {q \in [1..n -> Names] : \A i, j \in 1..n : q[i] = q[j] => i = j}

InitSplit ==
    /\ \E n \in 0..MaxPaths :
        \E q \in DistinctLists(n), stack_size \in MinStack..(MinStack + 1) :
            call_in = [fn |-> "split_into_stacks", image_paths |-> q,
                       stack_size |-> stack_size]
    /\ call_out = NoReturn
    /\ CtorIdle /\ StackIdle /\ BlendIdle /\ UIIdle

\* a call self.stacker.split_into_stacks(image_paths, stack_size)
SplitCall ==
    /\ call_in.fn = "split_into_stacks" /\ call_out = NoReturn
    /\ call_out' = SplitIntoStacks(call_in.image_paths, call_in.stack_size)
    /\ UNCHANGED <<call_in, ctorVars, stackVars, blendVars, uiVars>>

NextSplit == SplitCall

SpecSplit == InitSplit /\ [][NextSplit]_vars

(* ============================== claims ================================ *)
\* _align_images has reached `return aligned`
AlignReturned == pc = "align_return"
\* C1: when _align_images returns for N >= 2 images, the list has exactly N
\* elements and element 0 is the reference as it was loaded, whichever images
\* were aligned, refined by ECC or replaced by their original
C1_LengthAndReference ==
    AlignReturned =>
        /\ Len(images) >= MinStack
        /\ Len(aligned) = Len(images)
        /\ aligned[1] = images[1]
        /\ images[1] = LoadImage(1, image_paths[1])

\* C1 witness: a three-image stack returned with one fallback and one ECC-refined image
C1_Witness ==
    /\ AlignReturned /\ Len(images) = 3
    /\ 2 \in fallbacks /\ aligned[3].ecc

\* C2: an image whose procedure raised has its own unmodified original in its
\* slot, the loop stands at the image after the last slot filled and fills every
\* slot before it returns, and _align_images never raises once an image's
\* procedure has failed
C2_FallbackKeepsOriginal ==
    /\ \A i \in fallbacks :
          /\ i <= Len(aligned)
          /\ aligned[i] = images[i]
          /\ images[i] = LoadImage(i, image_paths[i])
    /\ pc \in {"align_gray", "align_scale", "align_warp", "align_ecc"} =>
          loc.i = Len(aligned) + 1 /\ loc.i <= Len(images)
    /\ (AlignReturned /\ fallbacks # {}) => Len(aligned) = Len(images)
    /\ fallbacks # {} => exc # "AlignError"

\* C2 witness: image 2 failed, image 3 was still aligned (warped) and the call returned
C2_Witness ==
    /\ AlignReturned /\ Len(images) = 3
    /\ fallbacks = {2} /\ aligned[3].warp.some

\* C3: a call with fewer than 2 paths ends in ValueError with nothing loaded and
\* no stage entered
C3_TooFewPaths ==
    (Len(image_paths) < 2 /\ pc # "call") =>
        /\ pc = "raised" /\ exc = "ValueError"
        /\ ran = {} /\ images = <<>> /\ aligned = <<>> /\ focus_maps = <<>>
        /\ result = NoBuffer

\* C3 witness: a one-path call has raised
C3_Witness == Len(image_paths) = 1 /\ pc = "raised"

\* two loaded images differ in height or width
Mismatched ==
    \E a, b \in 1..Len(images) :
        <<images[a].h, images[a].w>> # <<images[b].h, images[b].w>>

\* C4: a stack with two loaded images of different size enters no alignment,
\* focus-measure or blend stage and returns no composite
C4_MismatchRejected ==
    Mismatched =>
        /\ ran \cap {"align", "measure", "blend"} = {}
        /\ pc # "done"

\* C5: the constructor returns an instance exactly for radius in 1..20, smoothing
\* in 1..10 and scale_factor in 1..4; otherwise it raises ValueError and leaves no
\* field set and no colour profile
C5_ConstructIff ==
    ctor_exc # "unset" =>
        LET inRange == /\ ctor_args.radius \in 1..20
                       /\ ctor_args.smoothing \in 1..10
                       /\ ctor_args.scale_factor \in 1..4
        IN  /\ (ctor_exc = "none") <=> inRange
            /\ inRange =>
                  /\ stacker.exists
                  /\ stacker.radius = ctor_args.radius
                  /\ stacker.smoothing = ctor_args.smoothing
                  /\ stacker.scale_factor = ctor_args.scale_factor
                  /\ stacker.color_profiles = {"sRGB"}
            /\ ~inRange => ctor_exc = "ValueError" /\ stacker = NoInstance

\* C5 witness: only scale_factor is out of range, the other two sit on their bounds
C5_Witness ==
    /\ ctor_args = [radius |-> 20, smoothing |-> 10, scale_factor |-> 5]
    /\ ctor_exc = "ValueError"

\* C10: the buffer _blend_images returns has the height and width of
\* aligned_images[0] and every value in [0, 1], for every scale_factor in 1..4
C10_BlendSizeAndRange ==
    blend_out # NoBuffer =>
        /\ blend_out.h = blend_in.images[1].h
        /\ blend_out.w = blend_in.images[1].w
        /\ 0 <= blend_out.lo /\ blend_out.lo <= blend_out.hi /\ blend_out.hi <= 1000

\* C10 witness: scale_factor 4, two images of different size, a sharpened buffer
\* that undershoots 0 and overshoots 1
C10_Witness ==
    /\ blend_out # NoBuffer
    /\ blend_in.scale_factor = 4
    /\ Len(blend_in.images) = 2
    /\ blend_in.images[1] # blend_in.images[2]
    /\ blend_in.sharp = <<-300, 1400>>

\* no worker is alive, no signal is queued and the UI thread is idle
Quiescent ==
    /\ mainpc = "idle" /\ queue = <<>>
    /\ \A w \in Workers : ~IsRunning(w)

\* the workers of one Process Stack click
OfBatch(b) == {w \in Workers : workers[w].batch = b}

\* C6: at most one worker is inside process_stack at any time, and a worker for
\* stack k+1 exists only when the worker of stack k of the same batch has finished
\* processing and its save has ended
C6_OneWorkerAtATime ==
    /\ Cardinality({w \in Workers : InProcessStack(w)}) <= 1
    /\ \A w \in Workers : workers[w].k > 0 =>
          \E v \in 1..(w - 1) :
              /\ workers[v].batch = workers[w].batch
              /\ workers[v].k = workers[w].k - 1
              /\ workers[v].emitted = "finished"
              /\ v \in hist.saved \cup hist.save_failed

\* C7: once stop_processing has stopped a running worker, no later step saves
\* that worker's result or starts another worker in its batch
C7_StopHonored ==
    [][\A w \in hist.stopped :
          /\ w \in hist'.saved => w \in hist.saved
          /\ Len(workers') > Len(workers) =>
                workers'[Len(workers')].batch > workers[w].batch]_vars

\* C8: when the batch has come to rest without a stop request and with the queue
\* it started with, every stack after a stack whose process_stack raised has been
\* given a worker
C8_ErrorContinues ==
    \A w \in hist.failed :
        (/\ Quiescent
         /\ workers[w].batch = hist.batch
         /\ hist.stopped = {}
         /\ stacks = hist.n) =>
            \A j \in (workers[w].k + 1)..(stacks - 1) :
                \E v \in OfBatch(hist.batch) : workers[v].k = j

IsPrefix(a, b) == Len(a) <= Len(b) /\ SubSeq(b, 1, Len(a)) = a

\* a step appends one entry, and that entry is the result of a worker whose
\* process_stack returned and whose save has just succeeded
AppendsSaved ==
    /\ Len(results') = Len(results) + 1
    /\ LET w == results'[Len(results')]
       IN /\ workers[w].emitted = "finished"
          /\ w \in hist'.saved /\ w \notin hist.saved

\* C9 as claimed: under every step the list keeps its entries, grows only by a
\* processed and saved result, and is left alone by a failed stack or a failed save
C9_NeverShrinks ==
    [][/\ IsPrefix(results, results')
       /\ results' # results => AppendsSaved
       /\ (hist'.failed # hist.failed \/ hist'.save_failed # hist.save_failed)
             => results' = results]_vars

\* C9 amended: the same within one batch; the Process Stack click that starts a
\* batch empties the list
C9_GrowsWithinBatch ==
    [][IF hist'.batch # hist.batch
       THEN results' = <<>>
       ELSE /\ IsPrefix(results, results')
            /\ results' # results => AppendsSaved
            /\ (hist'.failed # hist.failed \/ hist'.save_failed # hist.save_failed)
                  => results' = results]_vars

\* C9 witness: the first stack's result is in the list, the second stack's save
\* failed in the same batch
C9_Witness ==
    /\ Len(results) = 1
    /\ \E w \in hist.save_failed :
          /\ w > results[1]
          /\ workers[w].batch = workers[results[1]].batch

\* a spatially uniform image
Uniform(p) == \A x \in 1..Len(p) : p[x] = p[1]
FocusMeasured == call_in.fn = "_focus_measure" /\ call_out # NoReturn
\* C11: every value of the map _focus_measure returns lies in [0, 1]; for a
\* spatially uniform image the call returns (both divisions are by 1e-6, not by
\* zero) and the map is the same everywhere and 0, the lowest value
C11_FocusMapRange ==
    FocusMeasured =>
        /\ call_out.exc = "none"
        /\ Len(call_out.map) = Len(call_in.img)
        /\ \A x \in 1..Len(call_out.map) : call_out.map[x] >= 0 /\ call_out.map[x] <= One
        /\ Uniform(call_in.img) =>
              /\ SeqMax(RawFocusMap(call_in.img, call_in.tex, call_in.coarse))
                    = SeqMin(RawFocusMap(call_in.img, call_in.tex, call_in.coarse))
              /\ \A x \in 1..Len(call_out.map) : call_out.map[x] = 0

\* C11 witness: a uniform non-black image measured, with non-zero blur differences
C11_Witness ==
    /\ FocusMeasured /\ Uniform(call_in.img) /\ call_in.img[1] > 0
    /\ \A x \in 1..Len(call_in.img) : call_in.tex[x] > 0 /\ call_in.coarse[x] > 0

\* C12: for one image and a uniform focus map, every channel of the composite
\* has its minimum and maximum inside the [min, max] of the same channel of the
\* reference image
C12_RangeNonExpansive ==
    (call_in.fn = "_blend_images" /\ call_out # NoReturn) =>
        \A c \in 1..3 :
            /\ call_out.value[c] >= call_in.channels[c].min
            /\ call_out.value[c] <= call_in.channels[c].max

Saved == call_in.fn = "save_image" /\ call_out # NoReturn
\* the pixel handed to the codec is the 8-bit level nearest to the float value,
\* the nearest end of 0..255 for a value outside [0, 1]
NearestLevel ==
    LET v == Clip(call_in.img, 0, One)
    IN  2 * Abs(call_out.codec.data * One - v * 255) <= One
\* C13 as stated: every format value other than 'JPEG' is refused with an error
\* and no file; 'JPEG' is quantised to the nearest level and handed to the codec
\* with quality 95
C13_OnlyJPEG ==
    Saved =>
        IF call_in.format = "JPEG"
        THEN call_out.codec.format = "JPEG" /\ call_out.codec.quality = JpegQuality
             /\ NearestLevel
        ELSE call_out.exc # "none" /\ ~call_out.written /\ call_out.codec = NoCodecCall

\* C13 amended: the format is compared after str.upper(): a value that spells
\* JPEG in any letter case is quantised to the nearest level, handed to the codec
\* with quality 95, and written unless the codec fails; every other value raises
\* ValueError and writes no file
C13_JPEGAnyCase ==
    Saved =>
        IF Upper(call_in.format) = "JPEG"
        THEN /\ call_out.codec.format = "JPEG" /\ call_out.codec.quality = JpegQuality
             /\ NearestLevel
             /\ call_out.written = call_in.io_ok
             /\ (call_out.exc = "none") = call_in.io_ok
        ELSE call_out.exc = "ValueError" /\ ~call_out.written
             /\ call_out.codec = NoCodecCall

\* C13 witness: 'jpeg' in lower case written, from a value that rounds up
C13_Witness ==
    /\ Saved /\ call_in.format = "jpeg" /\ call_out.written
    /\ call_in.img = 2 /\ call_out.codec.data = 1

\* C14: with color_space = 'sRGB' process_stack returns the blend result and
\* runs no colour transform; with any other colour space the blend result goes
\* through _convert_color_space and the transformed image is returned
C14_ColorSpaceRouting ==
    /\ (pc = "done" /\ color_space = "sRGB") => "convert" \notin ran
    /\ (pc = "done" /\ color_space # "sRGB") => "convert" \in ran
    /\ (color_space # "sRGB" /\ "convert" \in ran) => pc = "done" /\ exc = "none"

\* every scale pass of the watched image finished
AllPasses == obs.on /\ Len(obs.log) = Len(Scales)
\* the image is unrelated to the reference: the score is 0 at every scale
Unrelated == AllPasses /\ \A k \in 1..Len(obs.log) : obs.log[k].error = Num(0)
\* the buffer holds what image i held when it was loaded
IsOriginal(img, i) ==
    /\ img.src = i /\ ~img.ecc
    /\ img.warp.some => (img.warp.dy = 0 /\ img.warp.dx = 0)

Stages == <<"load", "align", "measure", "blend", "convert">>
\* the first n stages
FirstStages(n) == {Stages[k] : k \in 1..n}
\* C16: a stage is entered only when every stage before it has finished without
\* error: all paths loaded before alignment, one aligned image per loaded image
\* before any focus map, focus map j computed from aligned image j, one focus map
\* per aligned image before the blend, a composite before the colour transform;
\* an error raised in a stage leaves no later stage entered, and the call that
\* raised returns no composite
C16_StageOrder ==
    /\ \E n \in 0..Len(Stages) : ran = FirstStages(n)
    /\ "align" \in ran =>
          /\ Len(images) = Len(image_paths)
          /\ \A j \in 1..Len(images) : images[j] = LoadImage(j, image_paths[j])
    /\ "measure" \in ran => Len(aligned) = Len(images)
    /\ Len(focus_maps) <= Len(aligned)
    /\ \A j \in 1..Len(focus_maps) : focus_maps[j] = FocusMeasure(aligned[j])
    /\ "blend" \in ran => Len(focus_maps) = Len(aligned) /\ Len(aligned) >= MinStack
    /\ "convert" \in ran => result # NoBuffer /\ color_space # "sRGB"
    /\ (pc = "raised") = (exc # "none")
    /\ pc = "raised" =>
          /\ exc = "ValueError" => ran \subseteq FirstStages(1) /\ aligned = <<>>
          /\ exc = "AlignError" => ran = FirstStages(2) /\ focus_maps = <<>>
          /\ exc = "MeasureError" => ran = FirstStages(3) /\ result = NoBuffer
          /\ exc = "BlendError" => ran = FirstStages(4) /\ result = NoBuffer
          /\ exc = "KeyError" => ran = FirstStages(5)
    /\ pc = "done" =>
          /\ result # NoBuffer
          /\ ran = IF color_space = "sRGB" THEN FirstStages(4) ELSE FirstStages(5)

\* C16 witness: the second focus map of a three-image stack raised
C16_Witness ==
    /\ pc = "raised" /\ exc = "MeasureError"
    /\ Len(aligned) = 3 /\ Len(focus_maps) = 1

\* pass k of the watched image scored a number
Scored(k) == obs.log[k].error.k = "num"
\* the pass with the lowest score, the earliest one among equals
Winner ==
    CHOOSE k \in 1..Len(obs.log) :
        /\ Scored(k)
        /\ \A j \in 1..Len(obs.log) :
              Scored(j) => /\ obs.log[k].error.v <= obs.log[j].error.v
                           /\ j < k => obs.log[k].error.v < obs.log[j].error.v
HasWinner == \E k \in 1..Len(obs.log) : Scored(k)

\* C17: ECC refinement is attempted only for a winning score above 0.1, and for
\* every such score unless the warp before it raised; after a successful
\* refinement the slot holds the phase-correlation-warped image warped again,
\* after a failed one the slot holds the phase-correlation-warped image, which is
\* not the original, and the image is not counted as a fallback
C17_EccRefinement ==
    (AlignReturned /\ AllPasses) =>
        /\ obs.ecc # "none" => HasWinner /\ obs.log[Winner].error.v > EccThreshold
        /\ (HasWinner /\ MinStack \notin fallbacks) =>
              (obs.ecc # "none") = (obs.log[Winner].error.v > EccThreshold)
        /\ obs.ecc = "ok" =>
              /\ MinStack \notin fallbacks
              /\ aligned[MinStack] =
                    WarpECC(Warp(images[MinStack],
                                 ScaleShift(obs.log[Winner].shift, obs.log[Winner].tenths)))
        /\ obs.ecc = "raised" =>
              /\ MinStack \notin fallbacks
              /\ aligned[MinStack] =
                    Warp(images[MinStack],
                         ScaleShift(obs.log[Winner].shift, obs.log[Winner].tenths))
              /\ aligned[MinStack] # images[MinStack]

\* C17 witness: a refinement that raised, after a winning score just above 0.1
C17_Witness ==
    /\ AlignReturned /\ AllPasses /\ obs.ecc = "raised"
    /\ obs.log[Winner].error = Num(EccThreshold + 1)
    /\ aligned[MinStack].warp.dy # 0

\* C18: pass k is made at scale k of 1.0, 0.8, 0.6, 0.4, 0.2; the shift applied to
\* the colour image, times the winning pass's scale, is that pass's estimate (the
\* winner being the lowest score, the earliest pass among equal scores); when no
\* pass scored a number (every score NaN) the slot holds the original image
C18_BestShift ==
    (AlignReturned /\ AllPasses) =>
        /\ \A k \in 1..Len(obs.log) : obs.log[k].tenths = Scales[k]
        /\ ~HasWinner => MinStack \in fallbacks /\ aligned[MinStack] = images[MinStack]
        /\ (HasWinner /\ MinStack \notin fallbacks) =>
              /\ aligned[MinStack].src = MinStack
              /\ aligned[MinStack].warp.some
              /\ aligned[MinStack].warp.dy * obs.log[Winner].tenths
                    = obs.log[Winner].shift[1] * ShiftUnit * 10
              /\ aligned[MinStack].warp.dx * obs.log[Winner].tenths
                    = obs.log[Winner].shift[2] * ShiftUnit * 10

\* C18 witness: scales 0.8 and 0.2 tie for the lowest score with different
\* estimates, and the shift applied is the one of scale 0.8
C18_Witness ==
    /\ AlignReturned /\ AllPasses /\ MinStack \notin fallbacks
    /\ Winner = 2
    /\ obs.log[5].error = obs.log[2].error
    /\ obs.log[5].shift # obs.log[2].shift
    /\ aligned[MinStack].warp.dy * 8 = obs.log[2].shift[1] * ShiftUnit * 10
    /\ aligned[MinStack].warp.dy # 0

\* C19: no step of process_stack changes a buffer it was handed: the loaded
\* images only gain elements while loading and are fixed from the alignment on,
\* the aligned list only gains elements while aligning and is fixed under
\* _focus_measure and _blend_images, the focus maps only gain elements while
\* measuring and are fixed under _blend_images, also when one of them has another
\* size than the reference and is resized
C19_InputsReadOnly ==
    [][/\ IsPrefix(images, images')
       /\ pc # "load" => images' = images
       /\ pc # "align" => IsPrefix(aligned, aligned')
       /\ pc \in {"measure", "blend", "convert"} => aligned' = aligned
       /\ IsPrefix(focus_maps, focus_maps')
       /\ pc \in {"blend", "convert"} => focus_maps' = focus_maps]_vars

\* C19 witness: a composite was blended from a focus map of another size than the
\* reference, and that focus map still has the size of its own image
C19_Witness ==
    /\ pc = "done" /\ result # NoBuffer
    /\ <<focus_maps[2].h, focus_maps[2].w>> # <<aligned[1].h, aligned[1].w>>
    /\ focus_maps[2] = FocusMeasure(aligned[2])
    /\ aligned[2] = LoadImage(2, image_paths[2])

SplitDone == call_in.fn = "split_into_stacks" /\ call_out # NoReturn
\* the places (stack, position) of the returned stacks
Places == {<<i, j>> \in (1..MaxPaths) \X (1..MaxPaths) :
              i <= Len(call_out.stacks) /\ j <= Len(call_out.stacks[i])}
\* C20: the call returns; every input path stands at exactly one place of the
\* returned stacks and every place holds an input path; no stack is empty; each
\* stack is sorted; the stacks are ordered by their first path; another
\* stack_size gives the same stacks, and a stack of another length than
\* stack_size is warned about and returned all the same
C20_Partition ==
    SplitDone =>
        /\ call_out.exc = "none"
        /\ \A k \in 1..Len(call_in.image_paths) :
              Cardinality({pl \in Places :
                              call_out.stacks[pl[1]][pl[2]] = call_in.image_paths[k]}) = 1
        /\ \A pl \in Places :
              \E k \in 1..Len(call_in.image_paths) :
                  call_out.stacks[pl[1]][pl[2]] = call_in.image_paths[k]
        /\ \A i \in 1..Len(call_out.stacks) :
              /\ call_out.stacks[i] # <<>>
              /\ \A j \in 1..(Len(call_out.stacks[i]) - 1) :
                    PathLess(call_out.stacks[i][j], call_out.stacks[i][j + 1])
        /\ \A i \in 1..(Len(call_out.stacks) - 1) :
              PathLess(call_out.stacks[i][1], call_out.stacks[i + 1][1])
        /\ \A size \in MinStack..(MinStack + 1) :
              SplitIntoStacks(call_in.image_paths, size).stacks = call_out.stacks
        /\ call_out.warned =
              {call_out.stacks[i] : i \in {j \in 1..Len(call_out.stacks) :
                                               Len(call_out.stacks[j]) # call_in.stack_size}}

\* C20 witness: three paths handed over out of order, one of them matching no
\* pattern, returned as a stack of two and a stack of one that was warned about
C20_Witness ==
    /\ SplitDone
    /\ call_in.image_paths = <<<<"a", "1", "b">>, <<"b", "_", "1">>, <<"a", "1">>>>
    /\ call_in.stack_size = MinStack
    /\ call_out.stacks = <<<<<<"a", "1">>, <<"b", "_", "1">>>>, <<<<"a", "1", "b">>>>>>
    /\ call_out.warned = {<<<<"a", "1", "b">>>>}

\* the step is worker w's `if not self.stopped` check, after process_stack
\* returned or raised
AtCheck(w) ==
    /\ w <= Len(workers) /\ workers[w].pc \in {"returned", "raised"}
    /\ workers'[w].pc = "exiting"
\* the step queues a signal
Emits == Len(queue') > Len(queue)
\* C21: a run emits only at its check of the stopped flag, which it passes once:
\* finished exactly when process_stack returned and the flag was false, error
\* exactly when process_stack raised and the flag was false, nothing when the flag
\* was set; no other step of any thread emits a signal or changes what a run has
\* emitted, so a run never emits both signals nor one signal twice
C21_OneSignalPerRun ==
    [][/\ \A w \in 1..Len(workers) :
             IF AtCheck(w)
             THEN /\ workers[w].emitted = "none"
                  /\ (workers'[w].emitted = "finished")
                        = (workers[w].pc = "returned" /\ ~workers[w].stopped)
                  /\ (workers'[w].emitted = "error")
                        = (workers[w].pc = "raised" /\ ~workers[w].stopped)
                  /\ workers[w].stopped =>
                        workers'[w].emitted = "none" /\ queue' = queue
                  /\ ~workers[w].stopped =>
                        queue' = Append(queue, [sig |-> workers'[w].emitted, w |-> w])
             ELSE workers'[w].emitted = workers[w].emitted
       /\ Emits => \E w \in 1..Len(workers) : AtCheck(w)]_vars

\* C21 witness: of two runs that are over, one emitted finished and the other,
\* stopped before its check, emitted nothing
C21_Witness ==
    \E v, w \in Workers :
        /\ workers[v].pc = "done" /\ workers[v].emitted = "finished"
        /\ workers[w].pc = "done" /\ workers[w].stopped /\ workers[w].emitted = "none"

\* C22 (bounds): throughout a batch started by Process Stack on a queue of K
\* stacks, 0 <= len(results) <= current_stack <= K.  K is len(self.stacks), taken
\* while the queue is the one the batch was started on and every worker of the
\* batch was started for a stack index below K
C22_BatchBounds ==
    (/\ hist.batch > 0
     /\ stacks = hist.n
     /\ \A w \in OfBatch(hist.batch) : workers[w].k >= 0 /\ workers[w].k < stacks) =>
        /\ 0 <= Len(results) /\ Len(results) <= current_stack
        /\ current_stack <= stacks

====
